---- MODULE Spec2Model ----
(***************************************************************************)
(* Model of the Brainfuck lexer (brainfuck_lexer/src/lexer.rs) and of the  *)
(* tree-walking interpreter (src/interpreter.rs).                          *)
(*                                                                         *)
(* A source text is a sequence of runs [c |-> char, n |-> count]: the      *)
(* character c written n times in a row.  Two neighbouring runs may carry  *)
(* the same character; the lexer's coalescing step merges them.  Only the  *)
(* four repeatable characters + - > < appear with n > 1.                   *)
(*                                                                         *)
(* The build modelled has the feature precompiled_patterns enabled and a   *)
(* 64-bit usize.  The feature comments is off in Spec, whose sources hold  *)
(* command characters only, and is a build choice drawn in InitLex.        *)
(***************************************************************************)
EXTENDS Integers, Sequences, FiniteSets, TLC

\* ------------------------------------------------------------------ bounds

\* Longest source, in characters, of the exhaustively enumerated sources.
MaxLen == 3

\* Longest source, in characters, enumerated for the lexer alone.
MaxLexLen == 5

\* Longest loop body, in runs, enumerated for the idiom rewrite.
MaxBody == 4

\* Longest input enumerated.
MaxIn == 2

\* Most bytes the output sink takes before the model stops a run.
MaxOut == 3

\* Most iterations the reference evaluation of a loop is followed for.
LoopFuel == 300

\* Most bytes a long-running program has written when it writes one more.
MaxLongOut == 16

\* ------------------------------------------------------- program constants

HEAP_SIZE == 30000

\* Width of usize in bits.
USIZE_BITS == 64

TOKEN_INCREMENT == "+"
TOKEN_DECREMENT == "-"
TOKEN_NEXT == ">"
TOKEN_PREV == "<"
TOKEN_PRINT == "."
TOKEN_INPUT == ","
TOKEN_LOOP_BEGIN == "["
TOKEN_LOOP_END == "]"

\* ---------------------------------------------------------------- helpers

Last(s) == s[Len(s)]

Front(s) == SubSeq(s, 1, Len(s) - 1)

\* F applied n times in a row, starting from st: four times the n \div 4
\* applications, then the n % 4 that remain.  Every intermediate value is
\* computed once, before the next one starts from it.
RECURSIVE Repeat(_, _, _)
Repeat(F(_), st, n) ==
    IF n = 0 THEN st
    ELSE LET q == n \div 4
             r == n % 4
         IN  CHOOSE after \in
                 { IF r >= 3 THEN F(r2) ELSE r2 :
                     r2 \in { IF r >= 2 THEN F(r1) ELSE r1 :
                     r1 \in { IF r >= 1 THEN F(q4) ELSE q4 :
                     q4 \in { Repeat(F, q3, q) :
                     q3 \in { Repeat(F, q2, q) :
                     q2 \in { Repeat(F, q1, q) :
                     q1 \in { Repeat(F, st, q) } } } } } } } : TRUE

\* char::is_whitespace, on the characters the model's sources are made of.
IsWhitespace(ch) == ch \in {" ", "\n"}

\* ------------------------------------------------------------------ tokens

\* Token: t is the variant; n the count of Increment/Decrement/Next/Prev or
\* the dest_offset of a Multiply pattern; f the factor of a Multiply
\* pattern; body the block of a Closure.
Tok(t, n, f, body) == [t |-> t, n |-> n, f |-> f, body |-> body]

Increment(x) == Tok("Increment", x, 0, <<>>)
Decrement(x) == Tok("Decrement", x, 0, <<>>)
NextTok(count) == Tok("Next", count, 0, <<>>)
PrevTok(count) == Tok("Prev", count, 0, <<>>)
PrintTok == Tok("Print", 0, 0, <<>>)
InputTok == Tok("Input", 0, 0, <<>>)
Closure(block) == Tok("Closure", 0, 0, block)
SetToZero == Tok("SetToZero", 0, 0, <<>>)
Multiply(dest_offset, factor) == Tok("Multiply", dest_offset, factor, <<>>)

\* ------------------------------------------------------------------- lexer

Run(c, n) == [c |-> c, n |-> n]

\* .filter(|ch| !ch.is_whitespace())
FilterWhitespace(s) ==
    LET Kept(item) == ~IsWhitespace(item.c)
    IN  SelectSeq(s, Kept)

Repeatable(c) ==
    c \in {TOKEN_INCREMENT, TOKEN_DECREMENT, TOKEN_NEXT, TOKEN_PREV}

\* .map(|c| (c, 1)).coalesce(..): neighbours (c, n), (d, m) become (c, n + m)
\* when c = d is one of + - > <, and stay apart otherwise.
CoalesceFrom(acc, s) ==
    LET Step(st) ==
            LET item == Head(st.rest)
            IN  IF st.acc # <<>> /\ Last(st.acc).c = item.c /\ Repeatable(item.c)
                THEN [acc |-> Front(st.acc)
                                 \o <<Run(item.c, Last(st.acc).n + item.n)>>,
                      rest |-> Tail(st.rest)]
                ELSE [acc |-> st.acc \o <<item>>, rest |-> Tail(st.rest)]
    IN  Repeat(Step, [acc |-> acc, rest |-> s], Len(s)).acc

Coalesce(s) == CoalesceFrom(<<>>, s)

\* A conversion that stops at 255.
AsU8Saturating(count) == IF count > 255 THEN 255 ELSE count

\* count as u8
AsU8(count) == count % 256

LexOk(block, i) == [err |-> "none", ch |-> "", block |-> block, i |-> i]

LexErr(err, ch) == [err |-> err, ch |-> ch, block |-> <<>>, i |-> 0]

\* A ] that ends the block wherever it stands.
AtLoopEndAlwaysReturns(is_closure, block, i, ch) == LexOk(block, i + 1)

\* tokenize_block, the arms for TOKEN_LOOP_END: inside a closure the block
\* is returned, outside it the character is a syntax error.
AtLoopEnd(is_closure, block, i, ch) ==
    IF is_closure THEN LexOk(block, i + 1) ELSE LexErr("SyntaxError", ch)

\* tokenize_block, after the while loop: the iterator is exhausted.
AtEndOfInput(is_closure, block, i) ==
    IF is_closure THEN LexErr("UnclosedBlock", "") ELSE LexOk(block, i)

\* tokenize_block: items are the coalesced (char, count) pairs, i the position
\* of the iterator, block the tokens pushed so far.  The result carries the
\* iterator position after the call.
RECURSIVE TokenizeFrom(_, _, _, _, _)
TokenizeFrom(items, i, is_closure, block, comments) ==
    LET Push(st, token) ==
            [st EXCEPT !.i = @ + 1, !.block = Append(@, token)]
        Return(st, res) == [st EXCEPT !.returned = TRUE, !.res = res]
        \* One turn of `while let Some((ch, count)) = iter.next()`.
        Turn(st) ==
            IF st.returned THEN st
            ELSE IF st.i > Len(items)
            THEN Return(st, AtEndOfInput(is_closure, st.block, st.i))
            ELSE LET ch == items[st.i].c
                     count == items[st.i].n
                 IN  CASE ch = TOKEN_INCREMENT -> Push(st, Increment(AsU8(count)))
                       [] ch = TOKEN_DECREMENT -> Push(st, Decrement(AsU8(count)))
                       [] ch = TOKEN_NEXT -> Push(st, NextTok(count))
                       [] ch = TOKEN_PREV -> Push(st, PrevTok(count))
                       [] ch = TOKEN_PRINT -> Push(st, PrintTok)
                       [] ch = TOKEN_INPUT -> Push(st, InputTok)
                       [] ch = TOKEN_LOOP_BEGIN ->
                            LET inner == TokenizeFrom(items, st.i + 1, TRUE,
                                                      <<>>, comments)
                            IN  IF inner.err # "none" THEN Return(st, inner)
                                ELSE [st EXCEPT !.i = inner.i,
                                                !.block = Append(@, Closure(inner.block))]
                       [] ch = TOKEN_LOOP_END ->
                            Return(st, AtLoopEnd(is_closure, st.block, st.i, ch))
                       [] OTHER ->
                            IF comments THEN [st EXCEPT !.i = @ + 1]
                            ELSE Return(st, LexErr("SyntaxError", ch))
        start == [i |-> i, block |-> block, returned |-> FALSE,
                  res |-> LexOk(<<>>, 0)]
    IN  Repeat(Turn, start, (Len(items) + 2) - i).res

tokenize_block(items, is_closure, comments) ==
    TokenizeFrom(items, 1, is_closure, <<>>, comments)

\* The shape match without the guards offset == rev_offset.
RewritePatternUnguarded(token) ==
    IF token.t # "Closure" THEN token
    ELSE LET b == token.body
         IN  IF Len(b) = 1 /\ b[1] = Decrement(1) THEN SetToZero
             ELSE IF Len(b) = 4 /\ b[1] = Decrement(1) /\ b[2].t = "Next"
                     /\ b[3].t = "Increment" /\ b[4].t = "Prev"
                  THEN Multiply(b[2].n, b[3].n)
             ELSE IF Len(b) = 4 /\ b[1] = Decrement(1) /\ b[2].t = "Prev"
                     /\ b[3].t = "Increment" /\ b[4].t = "Next"
                  THEN Multiply(-b[2].n, b[3].n)
             ELSE IF Len(b) = 4 /\ b[1].t = "Next" /\ b[2].t = "Increment"
                     /\ b[3].t = "Prev" /\ b[4] = Decrement(1)
                  THEN Multiply(b[1].n, b[2].n)
             ELSE IF Len(b) = 4 /\ b[1].t = "Prev" /\ b[2].t = "Increment"
                     /\ b[3].t = "Next" /\ b[4] = Decrement(1)
                  THEN Multiply(-b[1].n, b[2].n)
             ELSE token

\* The third stage of optimize_block: the shape match on an optimized,
\* non-empty closure body.
RewritePattern(token) ==
    IF token.t # "Closure" THEN token
    ELSE LET b == token.body
         IN  IF Len(b) = 1 /\ b[1] = Decrement(1) THEN SetToZero
             ELSE IF Len(b) = 4 /\ b[1] = Decrement(1) /\ b[2].t = "Next"
                     /\ b[3].t = "Increment" /\ b[4].t = "Prev"
                     /\ b[2].n = b[4].n
                  THEN Multiply(b[2].n, b[3].n)
             ELSE IF Len(b) = 4 /\ b[1] = Decrement(1) /\ b[2].t = "Prev"
                     /\ b[3].t = "Increment" /\ b[4].t = "Next"
                     /\ b[2].n = b[4].n
                  THEN Multiply(-b[2].n, b[3].n)
             ELSE IF Len(b) = 4 /\ b[1].t = "Next" /\ b[2].t = "Increment"
                     /\ b[3].t = "Prev" /\ b[4] = Decrement(1)
                     /\ b[1].n = b[3].n
                  THEN Multiply(b[1].n, b[2].n)
             ELSE IF Len(b) = 4 /\ b[1].t = "Prev" /\ b[2].t = "Increment"
                     /\ b[3].t = "Next" /\ b[4] = Decrement(1)
                     /\ b[1].n = b[3].n
                  THEN Multiply(-b[1].n, b[2].n)
             ELSE token

\* A filter that keeps every token.
KeepTokenAlways(token) == TRUE

\* The filter of optimize_block: a closure is kept when its (optimized) body
\* is not empty.
KeepToken(token) == token.t # "Closure" \/ token.body # <<>>

\* optimize_block: per token, optimize the body of a closure, drop the
\* closure when the body came out empty, then match the patterns.
RECURSIVE optimize_block(_)
optimize_block(block) ==
    LET mapped == [i \in 1..Len(block) |->
                      IF block[i].t = "Closure"
                      THEN Closure(optimize_block(block[i].body))
                      ELSE block[i]]
        kept == SelectSeq(mapped, KeepToken)
    IN  [i \in 1..Len(kept) |-> RewritePattern(kept[i])]

\* lex: Ok(block) is [err |-> "none", block |-> ..], an error carries its
\* variant and, for SyntaxError, the offending character.
lex(src, comments) ==
    LET res == tokenize_block(Coalesce(FilterWhitespace(src)), FALSE, comments)
    IN  IF res.err # "none" THEN [err |-> res.err, ch |-> res.ch, block |-> <<>>]
        ELSE [err |-> "none", ch |-> "", block |-> optimize_block(res.block)]

\* ------------------------------------------------------------- arithmetic

\* 2^b modulo m, by doubling; every intermediate value stays below 2 * m.
Pow2Mod(b, m) ==
    LET Double(v) == (2 * v) % m
    IN  Repeat(Double, 1 % m, b)

\* An addition that stops at 255.
U8SaturatingAdd(a, b) == IF a + b > 255 THEN 255 ELSE a + b

\* u8::wrapping_add, u8::wrapping_sub, u8::wrapping_mul
U8WrappingAdd(a, b) == (a + b) % 256
U8WrappingSub(a, b) == (256 + a - b) % 256
U8WrappingMul(a, b) == (a * b) % 256

\* usize::wrapping_add(p, count) % len.  p is below len and the counts of the
\* model are far below 2^USIZE_BITS - len, so the sum does not wrap.
UsizeWrappingAddRem(p, count, len) == (p + count) % len

\* usize::wrapping_sub(p, count) % len.  When count exceeds p the difference
\* wraps to 2^USIZE_BITS - (count - p); its remainder modulo len is computed
\* from the remainders of the two terms, which fit the checker's integers.
UsizeWrappingSubRem(p, count, len) ==
    IF p >= count THEN (p - count) % len
    ELSE ((Pow2Mod(USIZE_BITS, len) + len) - ((count - p) % len)) % len

\* ------------------------------------------------------------------ memory

\* memory is [0u8; HEAP_SIZE].  It is held as the function from the indices
\* of its nonzero cells to their values; every other cell of 0..HEAP_SIZE-1
\* is 0.  Two equal tapes have the same representation.
ZeroMemory == [j \in {} |-> 0]

Cell(mem, i) == IF i \in DOMAIN mem THEN mem[i] ELSE 0

Store(mem, i, v) ==
    IF v = 0 THEN [j \in (DOMAIN mem) \ {i} |-> mem[j]]
    ELSE [j \in (DOMAIN mem) \cup {i} |-> IF j = i THEN v ELSE mem[j]]

\* ------------------------------------------------- interpreter, per token

\* Token::Increment(x) => memory[*ptr] = memory[*ptr].wrapping_add(*x)
IncrementCell(mem, p, x) == Store(mem, p, U8WrappingAdd(Cell(mem, p), x))

\* A decrement that takes one off the cell whatever the count.
DecrementCellOnce(mem, p, x) == Store(mem, p, U8WrappingSub(Cell(mem, p), 1))

\* Token::Decrement(x) => memory[*ptr] = memory[*ptr].wrapping_sub(*x)
DecrementCell(mem, p, x) == Store(mem, p, U8WrappingSub(Cell(mem, p), x))

\* A reset that takes one off the cell.
SetCellToZeroByOne(mem, p) == Store(mem, p, U8WrappingSub(Cell(mem, p), 1))

\* PreCompiledPattern::SetToZero => memory[*ptr] = 0
SetCellToZero(mem, p) == Store(mem, p, 0)

\* A move forward that stops at the last cell.
NextPtrSaturating(p, count) ==
    IF p + count >= HEAP_SIZE THEN HEAP_SIZE - 1 ELSE p + count

\* Token::Next(count) => *ptr = ptr.wrapping_add(*count) % memory.len()
NextPtr(p, count) == UsizeWrappingAddRem(p, count, HEAP_SIZE)

\* Token::Prev(count) => *ptr = ptr.wrapping_sub(*count) % memory.len()
PrevPtr(p, count) == UsizeWrappingSubRem(p, count, HEAP_SIZE)

\* The bytes `write!(out, "{}", b as char)` hands to the sink: the UTF-8
\* encoding of the code point U+0000..U+00FF.
Utf8OfChar(b) ==
    IF b < 128 THEN <<b>> ELSE <<192 + (b \div 64), 128 + (b % 64)>>

\* A destination index that is not reduced modulo the tape length.
MultiplyDestUnreduced(p, dest_offset) == p + dest_offset

\* PreCompiledPattern::Multiply: the destination index.
MultiplyDest(p, dest_offset) ==
    IF dest_offset > 0 THEN UsizeWrappingAddRem(p, dest_offset, HEAP_SIZE)
    ELSE UsizeWrappingSubRem(p, -dest_offset, HEAP_SIZE)

\* A Multiply that stores the product in the destination cell.
MultiplyCellsOverwrite(mem, p, dest_offset, factor) ==
    LET dest == MultiplyDest(p, dest_offset)
        mul_res == U8WrappingMul(Cell(mem, p), factor)
    IN  Store(Store(mem, dest, mul_res), p, 0)

\* PreCompiledPattern::Multiply: the product first, then the addition to the
\* destination cell, then the source cell is cleared.
MultiplyCells(mem, p, dest_offset, factor) ==
    LET dest == MultiplyDest(p, dest_offset)
        mul_res == U8WrappingMul(Cell(mem, p), factor)
        added == Store(mem, dest, U8WrappingAdd(Cell(mem, dest), mul_res))
    IN  Store(added, p, 0)

\* The arms of interpret_block that touch only the tape and the pointer.
IsTapeOp(op) ==
    op.t \in {"Increment", "Decrement", "Next", "Prev", "SetToZero", "Multiply"}

ExecTapeOp(op, mem, p) ==
    CASE op.t = "Increment" -> [memory |-> IncrementCell(mem, p, op.n), ptr |-> p]
      [] op.t = "Decrement" -> [memory |-> DecrementCell(mem, p, op.n), ptr |-> p]
      [] op.t = "Next" -> [memory |-> mem, ptr |-> NextPtr(p, op.n)]
      [] op.t = "Prev" -> [memory |-> mem, ptr |-> PrevPtr(p, op.n)]
      [] op.t = "SetToZero" -> [memory |-> SetCellToZero(mem, p), ptr |-> p]
      [] op.t = "Multiply" ->
            [memory |-> MultiplyCells(mem, p, op.n, op.f), ptr |-> p]

\* interpret_block on a block of tape tokens: the tokens in order.
RECURSIVE ExecBlock(_, _, _)
ExecBlock(block, mem, p) ==
    IF block = <<>> THEN [memory |-> mem, ptr |-> p]
    ELSE LET after == ExecTapeOp(Head(block), mem, p)
         IN  ExecBlock(Tail(block), after.memory, after.ptr)

\* Token::Closure over a body of tape tokens: `while memory[*ptr] != 0`
\* around interpret_block(body), followed for at most fuel iterations; done
\* tells whether the loop was left.
GenericLoop(body, mem, p, fuel) ==
    LET Turn(st) ==
            IF Cell(st.memory, st.ptr) = 0 THEN st
            ELSE ExecBlock(body, st.memory, st.ptr)
        after == Repeat(Turn, [memory |-> mem, ptr |-> p], fuel)
    IN  [done |-> Cell(after.memory, after.ptr) = 0,
         memory |-> after.memory, ptr |-> after.ptr]

\* ------------------------------------------------------------------- state

VARIABLES
    src,        \* the source text handed to lex, as runs
    comments,   \* whether the lexer is built with the feature comments
    input,      \* what the input source holds: bytes, or ReadError items
    inpos,      \* how many items of input have been consumed
    pc,         \* "lex", "run" or "done"
    program,    \* the result of lex
    frames,     \* the active interpret_block calls, innermost last
    memory,     \* the tape
    ptr,        \* the pointer
    output,     \* the bytes the output sink has received
    result,     \* "none", then "Ok", "IOError" or "ParserError"
    fault,      \* "none", or the I/O call that failed: "write" or "read"
    last_op,    \* the token interpret_block executed last
    prev,       \* the tape, pointer, stream positions and call depth before
                \* last_op
    cli         \* the locals src, pc and stack of brainfuck in main.rs

vars == <<src, comments, input, inpos, pc, program, frames, memory, ptr,
          output, result, fault, last_op, prev, cli>>

\* An item of input on which Read::read fails with an error other than
\* ErrorKind::Interrupted.
ReadError == -1

NoTok == Tok("none", 0, 0, <<>>)

Snapshot == [memory |-> memory, ptr |-> ptr, outlen |-> Len(output),
             inpos |-> inpos, depth |-> Len(frames)]

Frame(block, i) == [block |-> block, i |-> i]

Top == Last(frames)

AtOp == pc = "run" /\ frames # <<>> /\ Top.i <= Len(Top.block)

CurOp == Top.block[Top.i]

\* The for loop of interpret_block moves to the next token of the block.
Advance(fs) == [fs EXCEPT ![Len(fs)].i = @ + 1]

\* The error leaves the innermost interpret_block only; its caller goes on
\* with the token after the loop.
PropagateToCaller(fs) == IF Len(fs) > 1 THEN Advance(Front(fs)) ELSE <<>>

\* The ? operator: the error leaves interpret_block, and every caller's
\* `interpret_block(..)?` in turn, so no call stays active.
Propagate(fs) == <<>>

\* The next read of the input source fails.
ReadFails(in, pos) == pos < Len(in) /\ in[pos + 1] = ReadError

\* read_u8 with the end of the source taken for an error.
read_u8_EofIsError(in, pos) ==
    IF pos >= Len(in) \/ in[pos + 1] = ReadError
    THEN [ok |-> FALSE, byte |-> 0, pos |-> pos]
    ELSE [ok |-> TRUE, byte |-> in[pos + 1], pos |-> pos + 1]

\* read_u8: input.bytes().next().unwrap_or(Ok(0)).  Bytes::next is None at
\* the end of the source, Some(Err(e)) when the read fails.
read_u8(in, pos) ==
    IF pos >= Len(in) THEN [ok |-> TRUE, byte |-> 0, pos |-> pos]
    ELSE IF ReadFails(in, pos) THEN [ok |-> FALSE, byte |-> 0, pos |-> pos]
    ELSE [ok |-> TRUE, byte |-> in[pos + 1], pos |-> pos + 1]

\* ------------------------------------------------- sources and inputs

Commands ==
    {TOKEN_INCREMENT, TOKEN_DECREMENT, TOKEN_NEXT, TOKEN_PREV, TOKEN_PRINT,
     TOKEN_INPUT, TOKEN_LOOP_BEGIN, TOKEN_LOOP_END}

\* A text given character by character.
StrOf(chars) == [i \in DOMAIN chars |-> Run(chars[i], 1)]

\* s is a text of at most maxlen characters of alphabet.
IsStringOver(s, alphabet, maxlen) ==
    \E k \in 0..maxlen : \E f \in [1..k -> alphabet] : s = StrOf(f)

\* c written n times; nothing when n = 0.
Rep(c, n) == IF n = 0 THEN <<>> ELSE <<Run(c, n)>>

\* Sources of the lexer alone: commands, whitespace and a comment character.
LexAlphabet == Commands \cup {" ", "x"}

\* A pointer walk to p, then one move of n cells.  The + keeps the two moves
\* from being coalesced into one.
StartPositions == {0, 1, 2, 29998, 29999}
MoveCounts == {1, 2, 3, 29999, 30000, 30001, 60001}
MoveSources ==
    { Rep(TOKEN_NEXT, p) \o StrOf(<<"+">>) \o Rep(d, n) :
        p \in StartPositions, d \in {TOKEN_NEXT, TOKEN_PREV}, n \in MoveCounts }

\* Runs of the four repeatable characters, up to longer than the tape.
RunCounts == {1, 2, 255, 256, 257, 21616, 21617, 30001}
RunSources ==
    { Rep(c, n) \o Rep(d, m) :
        c \in {"+", "-", ">", "<"}, d \in {"+", "-", ">", "<"},
        n \in RunCounts, m \in {0} \cup RunCounts }

\* The loops the lexer recognizes as a Multiply pattern, entered with the
\* pointer at p and the cell at v.
IdiomBodies(k, f) ==
    { StrOf(<<"-">>) \o Rep(">", k) \o Rep("+", f) \o Rep("<", k),
      StrOf(<<"-">>) \o Rep("<", k) \o Rep("+", f) \o Rep(">", k),
      Rep(">", k) \o Rep("+", f) \o Rep("<", k) \o StrOf(<<"-">>),
      Rep("<", k) \o Rep("+", f) \o Rep(">", k) \o StrOf(<<"-">>) }
IdiomSources ==
    { Rep(">", p) \o Rep("+", v) \o StrOf(<<"[">>) \o b \o StrOf(<<"]">>) :
        p \in {0, 1, 29999}, v \in {1, 2, 5},
        b \in UNION { IdiomBodies(k, f) : k \in {1, 2, 30000}, f \in {1, 3} } }

\* The same loops entered with the cell at v and a neighbour cell at w.
PresetIdiomSources ==
    { StrOf(<<">">>) \o Rep("+", v) \o StrOf(<<m>>) \o Rep("+", w)
          \o StrOf(<<IF m = ">" THEN "<" ELSE ">">>)
          \o StrOf(<<"[">>) \o b \o StrOf(<<"]">>) :
        v \in {5, 200}, w \in {3, 100}, m \in {">", "<"},
        b \in UNION { IdiomBodies(1, f) : f \in {1, 3} } }

\* [-] entered with the pointer at p and the cell at v, next to a cell at 7.
ResetValues == {0, 1, 2, 127, 128, 254, 255}
ResetSources ==
    { Rep(">", p) \o Rep("+", 7) \o StrOf(<<">">>) \o Rep(c, v)
          \o StrOf(<<"[", "-", "]">>) :
        p \in {0, 29998}, c \in {"+", "-"}, v \in ResetValues }

\* +++++>+++<[->+<]: cell 0 at 5, cell 1 at 3, then the transfer loop.
TransferExample ==
    Rep("+", 5) \o StrOf(<<">">>) \o Rep("+", 3)
        \o StrOf(<<"<", "[", "-", ">", "+", "<", "]">>)

\* The source of tests/test_programs.rs, hello_world.
HelloWorld ==
    << Run("+", 8), Run("[", 1), Run(">", 1), Run("+", 4), Run("[", 1),
       Run(">", 1), Run("+", 2), Run(">", 1), Run("+", 3), Run(">", 1),
       Run("+", 3), Run(">", 1), Run("+", 1), Run("<", 4), Run("-", 1),
       Run("]", 1), Run(">", 1), Run("+", 1), Run(">", 1), Run("+", 1),
       Run(">", 1), Run("-", 1), Run(">", 2), Run("+", 1), Run("[", 1),
       Run("<", 1), Run("]", 1), Run("<", 1), Run("-", 1), Run("]", 1),
       Run(">", 2), Run(".", 1), Run(">", 1), Run("-", 3), Run(".", 1),
       Run("+", 7), Run(".", 1), Run(".", 1), Run("+", 3), Run(".", 1),
       Run(">", 2), Run(".", 1), Run("<", 1), Run("-", 1), Run(".", 1),
       Run("<", 1), Run(".", 1), Run("+", 3), Run(".", 1), Run("-", 6),
       Run(".", 1), Run("-", 8), Run(".", 1), Run(">", 2), Run("+", 1),
       Run(".", 1), Run(">", 1), Run("+", 2), Run(".", 1) >>

\* +[-.+.-]. : the cell of the loop is 0 at the first . of the body.
MidBodyZero == StrOf(<<"+", "[", "-", ".", "+", ".", "-", "]", ".">>)

\* Loops around input and output, some nested.
LoopSources ==
    { StrOf(<<",", "[", ".", ",", "]">>),
      StrOf(<<"+", "[", ".", "-", "]", "+", ".">>),
      StrOf(<<"+", "[", "[", ".", "-", "]", "+", ">", "]", ",">>),
      StrOf(<<"+", "[", ">", "+", "[", "-", ".", ",", "]", "<", "-", "]", "+">>),
      StrOf(<<",", "[", ">", "+", "<", "-", ".", "]", ">", ".">>),
      MidBodyZero }

\* The runs a loop body is made of for the idiom rewrite.
BodyRuns ==
    { Run(c, n) : c \in {"+", "-", ">", "<"}, n \in {1, 2} }
        \cup { Run(".", 1), Run("[", 1), Run("]", 1) }

\* One loop around a body of at most maxbody runs.
IsLoopOver(s, maxbody) ==
    \E k \in 0..maxbody : \E f \in [1..k -> BodyRuns] :
        s = StrOf(<<"[">>) \o f \o StrOf(<<"]">>)

\* Idiom loops whose runs of + and - pass 255.
LongRunLoops ==
    { StrOf(<<"[">>) \o Rep("-", d) \o Rep(m, 1) \o Rep("+", f)
          \o Rep(IF m = ">" THEN "<" ELSE ">", 1) \o StrOf(<<"]">>) :
        d \in {1, 256, 257}, f \in {255, 256, 257}, m \in {">", "<"} }
      \cup { StrOf(<<"[">>) \o Rep("-", d) \o StrOf(<<"]">>) : d \in {256, 257} }

HasInput(s) == \E i \in 1..Len(s) : s[i].c = TOKEN_INPUT

InputItems == {65, 200, ReadError}

\* An input of at most MaxIn items; a source without , never looks at its
\* input and gets the empty one.
IsInputFor(in, s) ==
    IF HasInput(s)
    THEN \E k \in 0..MaxIn : \E f \in [1..k -> InputItems] : in = f
    ELSE in = <<>>

\* The locals of brainfuck in main.rs before it is called.
CliIdle == [src |-> <<>>, pc |-> 0, stack |-> <<>>]

\* ------------------------------------------------------------------ Init

InitRest ==
    /\ cli = CliIdle
    /\ inpos = 0
    /\ pc = "lex"
    /\ program = [err |-> "none", ch |-> "", block |-> <<>>]
    /\ frames = <<>>
    /\ memory = ZeroMemory
    /\ ptr = 0
    /\ output = <<>>
    /\ result = "none"
    /\ fault = "none"
    /\ last_op = NoTok
    /\ prev = [memory |-> ZeroMemory, ptr |-> 0, outlen |-> 0, inpos |-> 0,
               depth |-> 0]

\* Every source of at most MaxLen command characters, and the sources of
\* the families above.
Init ==
    /\ \/ IsStringOver(src, Commands, MaxLen)
       \/ src \in MoveSources \cup RunSources \cup IdiomSources \cup LoopSources
       \/ src \in PresetIdiomSources \cup {TransferExample} \cup ResetSources
    /\ comments = FALSE
    /\ IsInputFor(input, src)
    /\ InitRest

InitLex ==
    /\ IsStringOver(src, LexAlphabet, MaxLexLen)
    /\ comments \in BOOLEAN
    /\ input = <<>>
    /\ InitRest

\* --------------------------------------------------------------- actions

\* let bf = lex(src)
Lex ==
    /\ pc = "lex"
    /\ program' = lex(src, comments)
    /\ IF program'.err = "none"
       THEN pc' = "lexed" /\ result' = result
       ELSE pc' = "done" /\ result' = "ParserError"
    /\ UNCHANGED <<cli, src, comments, input, inpos, frames, memory, ptr, output,
                   fault, last_op, prev>>

\* interpret: a zeroed tape, the pointer at 0, and the call of
\* interpret_block on the whole program.
Interpret ==
    /\ pc = "lexed"
    /\ memory' = ZeroMemory
    /\ ptr' = 0
    /\ frames' = <<Frame(program.block, 1)>>
    /\ pc' = "run"
    /\ UNCHANGED <<cli, src, comments, input, inpos, program, output, result,
                   fault, last_op, prev>>

\* Increment, Decrement, Next, Prev and the patterns.
DoTapeOp ==
    /\ AtOp
    /\ IsTapeOp(CurOp)
    /\ LET after == ExecTapeOp(CurOp, memory, ptr)
       IN  memory' = after.memory /\ ptr' = after.ptr
    /\ frames' = Advance(frames)
    /\ last_op' = CurOp
    /\ prev' = Snapshot
    /\ UNCHANGED <<cli, src, comments, input, inpos, pc, program, output, result,
                   fault>>

\* Token::Print, the sink taking every byte, for an output of at most limit
\* bytes so far.
PrintOk(limit) ==
    /\ AtOp
    /\ CurOp.t = "Print"
    /\ Len(output) < limit
    /\ output' = output \o Utf8OfChar(Cell(memory, ptr))
    /\ frames' = Advance(frames)
    /\ last_op' = CurOp
    /\ prev' = Snapshot
    /\ UNCHANGED <<cli, src, comments, input, inpos, pc, program, memory, ptr,
                   result, fault>>

DoPrintOk == PrintOk(MaxOut)

\* The same for a program that writes more.
DoPrintLong == PrintOk(MaxLongOut)

\* Token::Print, the sink failing, after taking k of the bytes; the error is
\* returned through every active interpret_block and out of interpret.
DoPrintFail ==
    /\ AtOp
    /\ CurOp.t = "Print"
    /\ \E k \in 0..(Len(Utf8OfChar(Cell(memory, ptr))) - 1) :
          output' = output \o SubSeq(Utf8OfChar(Cell(memory, ptr)), 1, k)
    /\ fault' = "write"
    /\ frames' = Propagate(frames)
    /\ IF frames' = <<>>
       THEN pc' = "done" /\ result' = "IOError"
       ELSE pc' = pc /\ result' = result
    /\ last_op' = CurOp
    /\ prev' = Snapshot
    /\ UNCHANGED <<cli, src, comments, input, inpos, program, memory, ptr>>

\* Token::Input => memory[*ptr] = read_u8(input)?
DoInput ==
    /\ AtOp
    /\ CurOp.t = "Input"
    /\ LET r == read_u8(input, inpos)
       IN  IF r.ok
           THEN /\ memory' = Store(memory, ptr, r.byte)
                /\ inpos' = r.pos
                /\ frames' = Advance(frames)
                /\ UNCHANGED <<pc, result>>
           ELSE /\ frames' = Propagate(frames)
                /\ IF frames' = <<>>
                   THEN pc' = "done" /\ result' = "IOError"
                   ELSE pc' = pc /\ result' = result
                /\ UNCHANGED <<memory, inpos>>
    /\ fault' = IF ReadFails(input, inpos) THEN "read" ELSE fault
    /\ last_op' = CurOp
    /\ prev' = Snapshot
    /\ UNCHANGED <<cli, src, comments, input, program, ptr, output>>

\* A loop whose body is called without a test.
DoClosureUntested ==
    /\ AtOp
    /\ CurOp.t = "Closure"
    /\ frames' = Append(frames, Frame(CurOp.body, 1))
    /\ UNCHANGED <<cli, src, comments, input, inpos, pc, program, memory, ptr,
                   output, result, fault, last_op, prev>>

\* Token::Closure: the test of `while memory[*ptr] != 0`; the body is
\* called when the cell is not 0, and the loop is left when it is.
DoClosure ==
    /\ AtOp
    /\ CurOp.t = "Closure"
    /\ IF Cell(memory, ptr) # 0
       THEN frames' = Append(frames, Frame(CurOp.body, 1))
       ELSE frames' = Advance(frames)
    /\ UNCHANGED <<cli, src, comments, input, inpos, pc, program, memory, ptr,
                   output, result, fault, last_op, prev>>

\* The for loop of interpret_block is over: Ok(()) goes to the caller, a
\* while loop that tests its cell again, or the caller of interpret.
BlockEnd ==
    /\ pc = "run"
    /\ frames # <<>>
    /\ Top.i > Len(Top.block)
    /\ frames' = Front(frames)
    /\ IF frames' = <<>>
       THEN pc' = "done" /\ result' = "Ok"
       ELSE pc' = pc /\ result' = result
    /\ UNCHANGED <<cli, src, comments, input, inpos, program, memory, ptr, output,
                   fault, last_op, prev>>

Next ==
    \/ Lex
    \/ Interpret
    \/ DoTapeOp
    \/ DoPrintOk
    \/ DoPrintFail
    \/ DoInput
    \/ DoClosure
    \/ BlockEnd

Spec == Init /\ [][Next]_vars

NextLex == Lex

\* The lexer on single loops.
InitLoop ==
    /\ \/ IsLoopOver(src, MaxBody)
       \/ src \in LongRunLoops
    /\ comments = FALSE
    /\ input = <<>>
    /\ InitRest

NextLoop == Lex

SpecLoop == InitLoop /\ [][NextLoop]_vars

SpecLex == InitLex /\ [][NextLex]_vars

\* cat_string: ,[.,] against every input of at most MaxIn bytes and the input
\* of the test, and a sink that takes every byte.
CatString == StrOf(<<",", "[", ".", ",", "]">>)

CatBytes == {0, 1, 65, 127, 128, 255}

\* "This is the way", the input of the test.
TheWay == <<84, 104, 105, 115, 32, 105, 115, 32, 116, 104, 101, 32, 119, 97, 121>>

InitCat ==
    /\ src = CatString
    /\ comments = FALSE
    /\ \/ \E k \in 0..MaxIn : \E f \in [1..k -> CatBytes] : input = f
       \/ input = TheWay
    /\ InitRest

NextCat ==
    \/ Lex
    \/ Interpret
    \/ DoPrintLong
    \/ DoInput
    \/ DoClosure
    \/ BlockEnd

SpecCat ==
    /\ InitCat
    /\ [][NextCat]_vars
    /\ WF_vars(Interpret \/ DoPrintLong \/ DoInput \/ DoClosure \/ BlockEnd)

\* hello_world: the program against any input and a sink that takes every
\* byte, as the Vec of the test does.
InitHello ==
    /\ src = HelloWorld
    /\ comments = FALSE
    /\ \E k \in 0..MaxIn : \E f \in [1..k -> InputItems] : input = f
    /\ InitRest

NextHello ==
    \/ Lex
    \/ Interpret
    \/ DoTapeOp
    \/ DoPrintLong
    \/ DoClosure
    \/ BlockEnd

\* interpret runs on: once called, a step it can take is taken.
SpecHello ==
    /\ InitHello
    /\ [][NextHello]_vars
    /\ WF_vars(Interpret \/ DoTapeOp \/ DoPrintLong \/ DoClosure \/ BlockEnd)

\* ------------------------------------------------- main.rs, brainfuck

\* The longest source text handed to the command-line interpreter.
MaxCliLen == 3

\* get_source_as_str: the characters of the source that are not whitespace.
\* The sources of SpecMain are given character by character.
get_source_as_str(s) ==
    LET kept == FilterWhitespace(s) IN [i \in 1..Len(kept) |-> kept[i].c]

\* get_u8_from_stdin: Some(byte) when stdin yields a byte; None when stdin is
\* exhausted and when the read fails (`result.ok()`).
get_u8_from_stdin(in, pos) ==
    IF pos < Len(in) /\ in[pos + 1] # ReadError
    THEN [some |-> TRUE, byte |-> in[pos + 1], pos |-> pos + 1]
    ELSE [some |-> FALSE, byte |-> 0,
          pos |-> IF pos < Len(in) THEN pos + 1 ELSE pos]

\* The scan of LOOP_BEGIN over a loop that is not entered: pc goes up one
\* character at a time, depth follows the brackets, until depth is 0;
\* get_op_from_src fails with UnexpectedEOF when pc leaves the source.
RECURSIVE SkipLoop(_, _, _)
SkipLoop(code, at, depth) ==
    LET next == at + 1
    IN  IF next >= Len(code) THEN [ok |-> FALSE, pc |-> next]
        ELSE LET op == code[next + 1]
                 d == IF op = TOKEN_LOOP_BEGIN THEN depth + 1
                      ELSE IF op = TOKEN_LOOP_END THEN depth - 1
                      ELSE depth
             IN  IF d = 0 THEN [ok |-> TRUE, pc |-> next]
                 ELSE SkipLoop(code, next, d)

\* Sources of at most MaxCliLen characters, and a few longer ones around
\* the input command.
CliAlphabet == Commands \cup {" ", "x"}

CliSources ==
    { StrOf(<<"+", "[", ",", "]">>),
      StrOf(<<",", "[", ".", ",", "]">>),
      StrOf(<<"+", ",", ".", "+", ".">>),
      StrOf(<<",", " ", ",", "+", ".">>) }

InitMain ==
    /\ \/ IsStringOver(src, CliAlphabet, MaxCliLen)
       \/ src \in CliSources
    /\ comments \in BOOLEAN
    /\ IsInputFor(input, src)
    /\ inpos = 0
    /\ pc = "main"
    /\ program = [err |-> "none", ch |-> "", block |-> <<>>]
    /\ frames = <<>>
    /\ memory = ZeroMemory
    /\ ptr = 0
    /\ output = <<>>
    /\ result = "none"
    /\ fault = "none"
    /\ last_op = NoTok
    /\ prev = [memory |-> ZeroMemory, ptr |-> 0, outlen |-> 0, inpos |-> 0,
               depth |-> 0]
    /\ cli = CliIdle

\* main: brainfuck(get_source_as_str(args.src)), which starts from a zeroed
\* tape, ptr = 0, pc = 0 and an empty stack.
Main ==
    /\ pc = "main"
    /\ cli' = [src |-> get_source_as_str(src), pc |-> 0, stack |-> <<>>]
    /\ memory' = ZeroMemory
    /\ ptr' = 0
    /\ pc' = "cli"
    /\ UNCHANGED <<src, comments, input, inpos, program, frames, output,
                   result, fault, last_op, prev>>

\* `while pc < src.len()` holds and op is the character at pc.
CliAt(op) ==
    /\ pc = "cli"
    /\ cli.pc < Len(cli.src)
    /\ cli.src[cli.pc + 1] = op

\* `pc += 1` at the end of the loop body.
CliNext == [cli EXCEPT !.pc = @ + 1]

\* brainfuck returns r.
CliReturn(r) == pc' = "done" /\ result' = r

\* INCREMENT and DECREMENT
CliCell ==
    /\ \/ CliAt(TOKEN_INCREMENT) /\ memory' = IncrementCell(memory, ptr, 1)
       \/ CliAt(TOKEN_DECREMENT) /\ memory' = DecrementCell(memory, ptr, 1)
    /\ cli' = CliNext
    /\ UNCHANGED <<src, comments, input, inpos, pc, program, frames, ptr,
                   output, result, fault, last_op, prev>>

\* NEXT_CELL and PREV_CELL
CliMove ==
    /\ \/ CliAt(TOKEN_NEXT) /\ ptr' = NextPtr(ptr, 1)
       \/ CliAt(TOKEN_PREV) /\ ptr' = PrevPtr(ptr, 1)
    /\ cli' = CliNext
    /\ UNCHANGED <<src, comments, input, inpos, pc, program, frames, memory,
                   output, result, fault, last_op, prev>>

\* PRINT => print!("{}", memory[ptr] as char), stdout taking every byte, for
\* an output of at most MaxOut bytes so far.
CliPrint ==
    /\ CliAt(TOKEN_PRINT)
    /\ Len(output) < MaxOut
    /\ output' = output \o Utf8OfChar(Cell(memory, ptr))
    /\ cli' = CliNext
    /\ UNCHANGED <<src, comments, input, inpos, pc, program, frames, memory,
                   ptr, result, fault, last_op, prev>>

\* INPUT => memory[ptr] = get_u8_from_stdin().map_or_else(
\*     || Err(BrainfuckError::ReadError), |v| Ok(v))?
CliInput ==
    /\ CliAt(TOKEN_INPUT)
    /\ LET r == get_u8_from_stdin(input, inpos)
       IN  /\ inpos' = r.pos
           /\ IF r.some
              THEN /\ memory' = Store(memory, ptr, r.byte)
                   /\ cli' = CliNext
                   /\ UNCHANGED <<pc, result>>
              ELSE /\ CliReturn("ReadError")
                   /\ UNCHANGED <<memory, cli>>
    /\ UNCHANGED <<src, comments, input, program, frames, ptr, output, fault,
                   last_op, prev>>

\* LOOP_BEGIN: pc is pushed when the cell is not 0; otherwise the loop is
\* scanned over.
CliLoopBegin ==
    /\ CliAt(TOKEN_LOOP_BEGIN)
    /\ IF Cell(memory, ptr) # 0
       THEN /\ cli' = [CliNext EXCEPT !.stack = Append(@, cli.pc)]
            /\ UNCHANGED <<pc, result>>
       ELSE LET scan == SkipLoop(cli.src, cli.pc, 1)
            IN  IF scan.ok
                THEN /\ cli' = [cli EXCEPT !.pc = scan.pc + 1]
                     /\ UNCHANGED <<pc, result>>
                ELSE /\ CliReturn("UnexpectedEOF")
                     /\ cli' = [cli EXCEPT !.pc = scan.pc]
    /\ UNCHANGED <<src, comments, input, inpos, program, frames, memory, ptr,
                   output, fault, last_op, prev>>

\* LOOP_END: pc = stack.pop()? - 1, then pc += 1: back at the LOOP_BEGIN
\* that pushed, or SyntaxError(']') on an empty stack.  The stack never
\* holds 0 (the cell under a LOOP_BEGIN at pc 0 is 0), so the subtraction
\* does not pass below 0.
CliLoopEnd ==
    /\ CliAt(TOKEN_LOOP_END)
    /\ IF cli.stack # <<>>
       THEN /\ cli' = [cli EXCEPT !.pc = (Last(cli.stack) - 1) + 1,
                                  !.stack = Front(@)]
            /\ UNCHANGED <<pc, result>>
       ELSE /\ CliReturn("SyntaxError")
            /\ UNCHANGED cli
    /\ UNCHANGED <<src, comments, input, inpos, program, frames, memory, ptr,
                   output, fault, last_op, prev>>

\* Any other character: SyntaxError(c) without the feature comments,
\* nothing with it.
CliOther ==
    /\ pc = "cli"
    /\ cli.pc < Len(cli.src)
    /\ cli.src[cli.pc + 1] \notin Commands
    /\ IF comments
       THEN cli' = CliNext /\ UNCHANGED <<pc, result>>
       ELSE CliReturn("SyntaxError") /\ UNCHANGED cli
    /\ UNCHANGED <<src, comments, input, inpos, program, frames, memory, ptr,
                   output, fault, last_op, prev>>

\* `while pc < src.len()` no longer holds: Ok(()).
CliEnd ==
    /\ pc = "cli"
    /\ cli.pc >= Len(cli.src)
    /\ CliReturn("Ok")
    /\ UNCHANGED <<src, comments, input, inpos, program, frames, memory, ptr,
                   output, fault, last_op, prev, cli>>

NextMain ==
    \/ Main
    \/ CliCell
    \/ CliMove
    \/ CliPrint
    \/ CliInput
    \/ CliLoopBegin
    \/ CliLoopEnd
    \/ CliOther
    \/ CliEnd

SpecMain == InitMain /\ [][NextMain]_vars

\* ---------------------------------------------------------------- claims

\* x modulo the tape length, for x of either sign.
ModTape(x) == ((x % HEAP_SIZE) + HEAP_SIZE) % HEAP_SIZE

\* C1: a MoveBackward(n) executed with the pointer at p leaves the pointer
\* at (p - n) mod 30000; from index 0, MoveBackward(1) lands on 29999.
C1_MoveBackwardWraps ==
    (pc # "lex" /\ last_op.t = "Prev") => ptr = ModTape(prev.ptr - last_op.n)

\* C2: a MoveForward(n) executed with the pointer at p leaves the pointer at
\* the index in 0..29999 that is congruent to p + n modulo 30000; from
\* 29999, MoveForward(1) lands on 0.
C2_MoveForwardWraps ==
    (pc # "lex" /\ last_op.t = "Next") =>
        /\ ptr \in 0..(HEAP_SIZE - 1)
        /\ \E q \in 0..((prev.ptr + last_op.n) \div HEAP_SIZE) :
              prev.ptr + last_op.n = q * HEAP_SIZE + ptr
        /\ (prev.ptr = HEAP_SIZE - 1 /\ last_op.n = 1) => ptr = 0

\* C2, witness: MoveForward(1) was executed at 29999 and the pointer is 0.
C2_Witness ==
    last_op = NextTok(1) /\ prev.ptr = HEAP_SIZE - 1 /\ ptr = 0

\* C3: an Output whose write does not fail appends exactly one byte to the
\* sink, the value of the current cell.
C3_OutputOneRawByte ==
    (last_op.t = "Print" /\ fault = "none") =>
        /\ Len(output) = prev.outlen + 1
        /\ output[Len(output)] = Cell(memory, ptr)

\* The program ,. as a source text.
CatChar == StrOf(<<",", ".">>)

\* C4: an InputByte takes exactly one byte from the source into the current
\* cell when a byte is left, and stores 0 and takes nothing when the source
\* is exhausted, without error; so ,. with input [A] writes exactly the byte
\* A and succeeds, and with empty input writes one byte 0 and succeeds.
C4_InputByte ==
    /\ (last_op.t = "Input" /\ prev.inpos < Len(input) /\ fault # "read") =>
          /\ inpos = prev.inpos + 1
          /\ Cell(memory, ptr) = input[inpos]
          /\ result # "IOError"
    /\ (last_op.t = "Input" /\ prev.inpos >= Len(input)) =>
          /\ inpos = prev.inpos
          /\ Cell(memory, ptr) = 0
          /\ result # "IOError"
    /\ (src = CatChar /\ pc = "done" /\ fault = "none" /\ Len(input) = 1) =>
          (output = input /\ result = "Ok")
    /\ (src = CatChar /\ pc = "done" /\ fault = "none" /\ input = <<>>) =>
          (output = <<0>> /\ result = "Ok")

\* C5: interpret returns an error only when a write to the output sink
\* failed: with no failed write it returns success.
C5_OnlySinkFails ==
    (pc = "done" /\ program.err = "none" /\ fault # "write") => result = "Ok"

\* C5, amended: interpret returns an error only when a write to the output
\* sink or a read of the input source failed: with neither it returns
\* success, and with either it returns the error.
C5_OnlyIoFails ==
    (pc = "done" /\ program.err = "none") =>
        /\ fault = "none" => result = "Ok"
        /\ fault # "none" => result = "IOError"

\* C5, witness: a run that read from the exhausted source, wrote to the
\* sink, met no failure and returned success.
C5_Witness ==
    /\ pc = "done" /\ result = "Ok" /\ fault = "none"
    /\ HasInput(src) /\ inpos = Len(input) /\ output # <<>>
    /\ last_op.t = "Input"

\* C6: the step in which a write to the sink fails ends interpret with an
\* error, leaves tape, pointer and input position as they were, at any loop
\* depth, and nothing changes after it.
C6_AbortOnWriteFailure ==
    [][fault' = "write" =>
          /\ pc' = "done" /\ result' = "IOError" /\ frames' = <<>>
          /\ memory' = memory /\ ptr' = ptr /\ inpos' = inpos
          /\ fault = "write" => output' = output]_vars

\* C6, witness: the write failed three calls deep, after earlier output, and
\* interpret has returned the error.
C6_Witness ==
    /\ fault = "write" /\ prev.depth >= 3 /\ prev.outlen > 0
    /\ pc = "done" /\ result = "IOError"

\* How many of the first k characters of s are c.
CountIn(s, c, k) == Cardinality({i \in 1..k : s[i].c = c})

OnlyCommandsAndWhitespace(s) ==
    \A i \in 1..Len(s) : s[i].c \in Commands \/ IsWhitespace(s[i].c)

SomePrefixClosesMore(s) ==
    \E k \in 1..Len(s) :
        CountIn(s, TOKEN_LOOP_END, k) > CountIn(s, TOKEN_LOOP_BEGIN, k)

\* C7: on a source of command characters and whitespace, lex returns
\* SyntaxError(']') exactly when some prefix holds more ] than [; otherwise
\* UnclosedBlock exactly when the source holds more [ than ]; otherwise a
\* program.
C7_BracketErrors ==
    (pc # "lex" /\ OnlyCommandsAndWhitespace(src)) =>
        IF SomePrefixClosesMore(src)
        THEN program.err = "SyntaxError" /\ program.ch = TOKEN_LOOP_END
        ELSE IF CountIn(src, TOKEN_LOOP_BEGIN, Len(src))
                    > CountIn(src, TOKEN_LOOP_END, Len(src))
             THEN program.err = "UnclosedBlock"
             ELSE program.err = "none"

\* C7, witness: lex has answered [ ]] with SyntaxError(']').
C7_Witness ==
    /\ pc = "done"
    /\ src = StrOf(<<"[", " ", "]", "]">>)
    /\ program.err = "SyntaxError" /\ program.ch = TOKEN_LOOP_END

RECURSIVE NoEmptyClosure(_)
NoEmptyClosure(block) ==
    \A i \in 1..Len(block) :
        block[i].t = "Closure" =>
            (block[i].body # <<>> /\ NoEmptyClosure(block[i].body))

\* A loop that holds nothing but loops that hold nothing.
RECURSIVE Hollow(_)
Hollow(token) ==
    /\ token.t = "Closure"
    /\ \A i \in 1..Len(token.body) : Hollow(token.body[i])

\* The block without its hollow loops, at every depth, the rest in order.
RECURSIVE WithoutHollow(_)
WithoutHollow(block) ==
    IF block = <<>> THEN <<>>
    ELSE LET token == Head(block)
         IN  IF Hollow(token) THEN WithoutHollow(Tail(block))
             ELSE IF token.t = "Closure"
                  THEN <<Closure(WithoutHollow(token.body))>>
                       \o WithoutHollow(Tail(block))
                  ELSE <<token>> \o WithoutHollow(Tail(block))

\* The idiom rewrite applied to every loop of the block, innermost first.
RECURSIVE RewriteAll(_)
RewriteAll(block) ==
    [i \in 1..Len(block) |->
        IF block[i].t = "Closure"
        THEN RewritePattern(Closure(RewriteAll(block[i].body)))
        ELSE block[i]]

\* The tree tokenize_block hands to optimize_block.
Tokenized == tokenize_block(Coalesce(FilterWhitespace(src)), FALSE, comments)

\* C8: a program lex returns holds no loop with an empty body at any depth;
\* it is the parsed tree with every hollow loop removed, the other
\* operations in their source order (and the idioms rewritten).
C8_NoEmptyLoops ==
    (pc # "lex" /\ program.err = "none") =>
        /\ NoEmptyClosure(program.block)
        /\ program.block = RewriteAll(WithoutHollow(Tokenized.block))

\* C8, witness: lex has removed the two empty loops of +[].[] and kept + and
\* . in order.
C8_Witness ==
    /\ pc = "lexed"
    /\ \E i \in 1..Len(Tokenized.block) : Hollow(Tokenized.block[i])
    /\ Len(program.block) = 2
    /\ program.block = <<Increment(1), PrintTok>>

\* The loop bodies the lexer rewrites to the pattern op.
OriginalBodies(op) ==
    LET k == IF op.n < 0 THEN -op.n ELSE op.n
        shapes ==
            { <<Decrement(1), NextTok(k), Increment(op.f), PrevTok(k)>>,
              <<Decrement(1), PrevTok(k), Increment(op.f), NextTok(k)>>,
              <<NextTok(k), Increment(op.f), PrevTok(k), Decrement(1)>>,
              <<PrevTok(k), Increment(op.f), NextTok(k), Decrement(1)>> }
    IN  {b \in shapes : RewritePattern(Closure(b)) = op}

\* C9: a Multiply pattern leaves the tape and the pointer that the generic
\* loop over the body it was rewritten from leaves, and that loop
\* terminates as the pattern does, from every pointer position.
C9_IdiomPreservesSemantics ==
    last_op.t = "Multiply" =>
        \A b \in OriginalBodies(last_op) :
            LET r == GenericLoop(b, prev.memory, prev.ptr, LoopFuel)
            IN  r.done /\ r.memory = memory /\ r.ptr = ptr

OnlyRepeatable(s) == \A i \in 1..Len(s) : Repeatable(s[i].c)

\* The token of one character c.
UnitTok(c) ==
    CASE c = TOKEN_INCREMENT -> Increment(1)
      [] c = TOKEN_DECREMENT -> Decrement(1)
      [] c = TOKEN_NEXT -> NextTok(1)
      [] c = TOKEN_PREV -> PrevTok(1)

\* op applied n times in a row to the tape and pointer st.
Times(op, st, n) ==
    LET Once(s) == ExecTapeOp(op, s.memory, s.ptr)
    IN  Repeat(Once, st, n)

\* The count-1 operation of every character of s, in order.
RECURSIVE PerCharacter(_, _)
PerCharacter(s, st) ==
    IF s = <<>> THEN st
    ELSE CHOOSE after \in { PerCharacter(Tail(s), run) :
                              run \in {Times(UnitTok(Head(s).c), st, Head(s).n)} } :
             TRUE

\* C10: for a source of + - > < only, the lexed program leaves the tape and
\* the pointer that the count-1 operations of its characters, applied one
\* by one from the initial tape, leave; for runs of any length.
C10_CoalescingPreservesSemantics ==
    (pc = "done" /\ result = "Ok" /\ OnlyRepeatable(src)) =>
        LET r == PerCharacter(src, [memory |-> ZeroMemory, ptr |-> 0])
        IN  memory = r.memory /\ ptr = r.ptr

\* The tree optimize_block is given, without its hollow loops: the loops
\* lex keeps or rewrites, before any rewrite.
Pruned == WithoutHollow(Tokenized.block)

IsMove(token) == token.t \in {"Next", "Prev"}

\* body is one SubValue(1), a move by k, an AddValue(f) and the opposite
\* move by k, four operations in all, and offset is +k when the first of
\* the two moves is forward and -k when it is backward.
IsTransferBody(body, offset, f) ==
    /\ Len(body) = 4
    /\ \E d, a, m1, m2 \in 1..4 :
          /\ Cardinality({d, a, m1, m2}) = 4
          /\ m1 < m2
          /\ body[d] = Decrement(1)
          /\ body[a] = Increment(f)
          /\ IsMove(body[m1]) /\ IsMove(body[m2])
          /\ body[m1].t # body[m2].t
          /\ body[m1].n = body[m2].n
          /\ offset = IF body[m1].t = "Next" THEN body[m1].n ELSE -body[m1].n

\* The two moves of a four-operation body differ in magnitude.
UnevenMoves(body) ==
    \E i, j \in 1..Len(body) :
        /\ i < j /\ IsMove(body[i]) /\ IsMove(body[j])
        /\ body[i].n # body[j].n

\* lexed is what the rewrite may make of the tree before: a loop is a
\* SetToZero exactly when its optimized body is [SubValue(1)], a Multiply
\* only over a transfer body, and otherwise a loop over its optimized body;
\* it is a loop when the body has neither one nor four operations, or has
\* four with moves of different magnitudes.
RECURSIVE RewrittenAsClaimed(_, _)
RewrittenAsClaimed(before, lexed) ==
    /\ Len(before) = Len(lexed)
    /\ \A i \in 1..Len(before) :
          IF before[i].t # "Closure" THEN lexed[i] = before[i]
          ELSE /\ (\/ Len(before[i].body) \notin {1, 4}
                   \/ Len(before[i].body) = 4 /\ UnevenMoves(before[i].body))
                  => lexed[i].t = "Closure"
               /\ CASE lexed[i].t = "SetToZero" ->
                         before[i].body = <<Decrement(1)>>
                    [] lexed[i].t = "Multiply" ->
                         IsTransferBody(before[i].body, lexed[i].n, lexed[i].f)
                    [] lexed[i].t = "Closure" ->
                         /\ lexed[i].body # <<Decrement(1)>>
                         /\ RewrittenAsClaimed(before[i].body, lexed[i].body)
                    [] OTHER -> FALSE

\* C11: lex makes a loop a ResetToZero exactly when its optimized body is
\* the single SubValue(1), and a TransferMultiply(offset, f) only when the
\* body is the four operations SubValue(1), move by k, AddValue(f), opposite
\* move by k, with the sign of offset that of the first move; a loop with
\* moves of different magnitudes or a further operation stays a generic
\* loop over its unchanged body.
C11_IdiomShapes ==
    (pc # "lex" /\ program.err = "none") =>
        RewrittenAsClaimed(Pruned, program.block)

\* C11, witness: lex has rewritten [-<<++>>] to Multiply with offset -2 and
\* factor 2.
C11_Witness ==
    /\ pc = "lexed"
    /\ program.block = <<Multiply(-2, 2)>>
    /\ Pruned = <<Closure(<<Decrement(1), PrevTok(2), Increment(2), NextTok(2)>>)>>

\* The tape after (v * factor) mod 256 is added to cell d and cell p is set
\* to 0, v being the value of cell p.
Transferred(mem, p, d, factor) ==
    LET v == Cell(mem, p)
        sum == (Cell(mem, d) + ((v * factor) % 256)) % 256
    IN  [i \in ((DOMAIN mem) \cup {d}) \ ({p} \cup {j \in {d} : sum = 0}) |->
            IF i = d THEN sum ELSE mem[i]]

\* The cells a Multiply at p with this offset may have for destination: the
\* cell at p + offset when that is an index of the tape, a cell of the tape
\* otherwise.
DestinationCells(p, offset) ==
    IF p + offset \in 0..(HEAP_SIZE - 1) THEN {p + offset}
    ELSE 0..(HEAP_SIZE - 1)

C13_ResetToZero ==
    /\ lex(StrOf(<<"[", "-", "]">>), FALSE).block = <<SetToZero>>
    /\ (src \in ResetSources /\ pc # "lex") =>
          (program.err = "none" /\ Last(program.block) = SetToZero)
    /\ last_op = SetToZero =>
          /\ ptr = prev.ptr
          /\ memory = [i \in (DOMAIN prev.memory) \ {ptr} |-> prev.memory[i]]
          /\ LET r == GenericLoop(<<Decrement(1)>>, prev.memory, prev.ptr,
                                  LoopFuel)
             IN  r.done /\ r.memory = memory /\ r.ptr = ptr

\* C13, witness: SetToZero has run on a cell holding 255 next to a cell
\* holding 7.
C13_Witness ==
    /\ src \in ResetSources
    /\ last_op = SetToZero
    /\ Cell(prev.memory, prev.ptr) = 255
    /\ memory = ((ptr - 1) :> 7)

\* Every Increment and Decrement of the block, at every depth, has its count
\* in lo..255 and every Next and Prev has a count of at least 1.
RECURSIVE CountsWithin(_, _)
CountsWithin(block, lo) ==
    \A i \in 1..Len(block) :
        /\ block[i].t \in {"Increment", "Decrement"} => block[i].n \in lo..255
        /\ block[i].t \in {"Next", "Prev"} => block[i].n >= 1
        /\ block[i].t = "Closure" => CountsWithin(block[i].body, lo)

\* C14 as stated: every Increment and Decrement of a program lex returns has
\* a count in 1..255 and every Next and Prev a count of at least 1, runs of
\* 256 or more + or - included.
C14_CountsInRange ==
    (pc # "lex" /\ program.err = "none") => CountsWithin(program.block, 1)

\* The token a run of n characters c is lexed to: the run length for a move,
\* the run length modulo 256 for a value.
RunToken(c, n) ==
    CASE c = "+" -> Increment(n % 256)
      [] c = "-" -> Decrement(n % 256)
      [] c = ">" -> NextTok(n)
      [] c = "<" -> PrevTok(n)

\* C14, amended: every Increment and Decrement of a program lex returns has
\* a count in 0..255, the run length modulo 256, which is 0 exactly for a
\* run whose length is a multiple of 256, and every Next and Prev has the
\* run length, at least 1, as its count.
C14_CountsModulo ==
    (pc # "lex" /\ program.err = "none") =>
        /\ CountsWithin(program.block, 0)
        /\ \A c \in {"+", "-", ">", "<"}, d \in {"+", "-", ">", "<"},
              n \in RunCounts, m \in {0} \cup RunCounts :
              src = Rep(c, n) \o Rep(d, m) =>
                  program.block =
                      IF c = d THEN <<RunToken(c, n + m)>>
                      ELSE IF m = 0 THEN <<RunToken(c, n)>>
                      ELSE <<RunToken(c, n), RunToken(d, m)>>

\* C14, witness: 256 times + was lexed to Increment(0), next to 257 times -
\* lexed to Decrement(1).
C14_Witness ==
    /\ src = Rep("+", 256) \o Rep("-", 257)
    /\ pc # "lex"
    /\ program.block = <<Increment(0), Decrement(1)>>

\* x modulo 256, for x of either sign.
ModByte(x) == ((x % 256) + 256) % 256

\* What a run of n characters c adds to a cell: n for +, -n for -.
Signed(c, n) == IF c = "+" THEN n ELSE -n

\* C15: a run of n times + lexed and executed on a cell at c leaves it at
\* (c + n) mod 256 and a run of n times - at (c - n) mod 256, for runs
\* shorter and longer than 256: 256 times + leave the cell as it was and
\* 257 times + do what one + does.
C15_RunsWrapAt256 ==
    pc = "done" =>
        \A c \in {"+", "-"}, d \in {"+", "-"}, n \in RunCounts, m \in RunCounts :
            /\ src = Rep(c, n) =>
                  /\ Cell(prev.memory, 0) = 0
                  /\ memory = Store(ZeroMemory, 0, ModByte(Signed(c, n)))
            /\ (src = Rep(c, n) \o Rep(d, m) /\ c # d) =>
                  /\ Cell(prev.memory, 0) = ModByte(Signed(c, n))
                  /\ Cell(memory, 0) =
                        ModByte(Cell(prev.memory, 0) + Signed(d, m))
                  /\ DOMAIN memory \subseteq {0}
                  /\ m = 256 => memory = prev.memory
                  /\ m = 257 =>
                        Cell(memory, 0) = ModByte(Cell(prev.memory, 0) + Signed(d, 1))

\* C15, witness: 255 times - left the cell at 1 and 257 times + took it to 2.
C15_Witness ==
    /\ src = Rep("-", 255) \o Rep("+", 257)
    /\ pc = "done"
    /\ Cell(prev.memory, 0) = 1
    /\ memory = (0 :> 2)

\* s without the characters that are neither commands nor whitespace.
RECURSIVE WithoutComments(_)
WithoutComments(s) ==
    IF s = <<>> THEN <<>>
    ELSE IF Head(s).c \in Commands \/ IsWhitespace(Head(s).c)
         THEN <<Head(s)>> \o WithoutComments(Tail(s))
         ELSE WithoutComments(Tail(s))

\* C16: with comments skipped, lex of a source returns what lex returns for
\* the source with every character outside the command set deleted: the
\* counts are the run lengths of the remaining characters and the idioms
\* are recognized as without the comment characters.
C16_CommentsAreSkipped ==
    (comments /\ pc # "lex") =>
        LET stripped == lex(WithoutComments(src), TRUE)
        IN  /\ program.err = stripped.err
            /\ program.block = stripped.block

\* "Hello World!\n"
HelloBytes == <<72, 101, 108, 108, 111, 32, 87, 111, 114, 108, 100, 33, 10>>

\* C17: the Hello World source lexes without error and its run ends with
\* success after writing the 13 bytes of "Hello World!" and a newline and
\* nothing else, whatever the input holds.
C17_HelloWorld ==
    /\ [](pc # "lex" => (program.err = "none" /\ result # "ParserError"))
    /\ (pc = "lexed") ~>
          [](/\ pc = "done" /\ result = "Ok"
             /\ output = HelloBytes /\ inpos = 0)

\* C17, witness: the run is over with the 13 bytes written, against an
\* input of two items.
C17_Witness ==
    /\ src = HelloWorld /\ Len(input) = 2
    /\ pc = "done" /\ result = "Ok"
    /\ output = HelloBytes

\* Every byte of the input is in 1..127.
PlainInput == \A i \in 1..Len(input) : input[i] \in 1..127

\* C18: ,[.,] terminates on every finite input; on an input of bytes in
\* 1..127 it ends with success having written the input, byte for byte in
\* order, and the loop is left at the first Input that finds the input
\* exhausted and stores 0.
C18_CatTerminates ==
    /\ (pc = "lexed") ~> [](pc = "done" /\ result = "Ok")
    /\ [](PlainInput =>
            /\ pc = "done" => (output = input /\ inpos = Len(input))
            /\ (last_op = InputTok /\ prev.inpos = Len(input)) =>
                  (Cell(memory, 0) = 0 /\ output = input)
            /\ pc = "done" => (last_op = InputTok /\ prev.inpos = Len(input)))

\* C18, witness: the run on the input 65, 127 is over with 65, 127 written.
C18_Witness ==
    /\ src = CatString /\ input = <<65, 127>>
    /\ pc = "done" /\ result = "Ok"
    /\ output = <<65, 127>>

\* C19: a Closure tests the cell under the pointer before each execution
\* of its body and only then.  At 0 the body is not entered and the token
\* after the Closure is next; otherwise the body is entered at its first
\* token, is left only past its last token, and leaving it leads back to
\* the test: a cell that is 0 in the middle of the body does not end the
\* loop.
C19_LoopTestsBeforeBody ==
    /\ [][/\ (AtOp /\ CurOp.t = "Closure" /\ Cell(memory, ptr) = 0) =>
                /\ frames' = Front(frames) \o <<Frame(Top.block, Top.i + 1)>>
                /\ UNCHANGED <<memory, ptr, output, inpos>>
          /\ (AtOp /\ CurOp.t = "Closure" /\ Cell(memory, ptr) # 0) =>
                /\ frames' = frames \o <<Frame(CurOp.body, 1)>>
                /\ UNCHANGED <<memory, ptr, output, inpos>>
          /\ (frames # <<>> /\ Len(frames') > Len(frames)) =>
                (AtOp /\ CurOp.t = "Closure" /\ Cell(memory, ptr) # 0)
          /\ (Len(frames) >= 2 /\ Len(frames') < Len(frames) /\ fault' = "none") =>
                /\ Top.i = Len(Top.block) + 1
                /\ frames' = Front(frames)
                /\ LET caller == frames'[Len(frames')]
                   IN  /\ caller.i \in 1..Len(caller.block)
                       /\ caller.block[caller.i] = Closure(Top.block)
         ]_vars
    /\ []((src = MidBodyZero /\ pc = "done" /\ fault = "none") =>
             output = <<0, 1, 0>>)

\* C19, witness: +[-.+.-]. has run: the body went on after the cell was
\* written as 0 in its middle, and the loop was left at the test after it.
C19_Witness ==
    /\ src = MidBodyZero
    /\ pc = "done" /\ result = "Ok"
    /\ output = <<0, 1, 0>>

\* interpret_block on a tree without Input, every Closure a generic loop, as
\* a function: st holds the tape, the pointer, the output and whether the
\* evaluation has come to its end.
RECURSIVE EvalTokens(_, _)

\* `while memory[*ptr] != 0` around the body, followed for LoopFuel
\* iterations; done is FALSE when the loop has not been left by then.
EvalLoop(body, st) ==
    LET Turn(s) ==
            IF ~s.done \/ Cell(s.memory, s.ptr) = 0 THEN s
            ELSE EvalTokens(body, s)
        after == Repeat(Turn, st, LoopFuel)
    IN  IF ~after.done \/ Cell(after.memory, after.ptr) = 0 THEN after
        ELSE [after EXCEPT !.done = FALSE]

EvalToken(op, st) ==
    CASE IsTapeOp(op) ->
            LET after == ExecTapeOp(op, st.memory, st.ptr)
            IN  [st EXCEPT !.memory = after.memory, !.ptr = after.ptr]
      [] op.t = "Print" ->
            [st EXCEPT !.output = @ \o Utf8OfChar(Cell(st.memory, st.ptr))]
      [] op.t = "Closure" -> EvalLoop(op.body, st)

EvalTokens(block, st) ==
    IF block = <<>> \/ ~st.done THEN st
    ELSE EvalTokens(Tail(block), EvalToken(Head(block), st))

Eval(block) ==
    EvalTokens(block, [memory |-> ZeroMemory, ptr |-> 0, output |-> <<>>,
                       done |-> TRUE])

\* C20: the parsed tree with its empty loops removed behaves as the tree
\* with them kept as generic loops: both come to an end or neither does,
\* and at the end output, tape and pointer are the same.
C20_PruningPreservesBehaviour ==
    (pc # "lex" /\ program.err = "none" /\ ~HasInput(src)) =>
        LET kept == Eval(Tokenized.block)
            pruned == Eval(Pruned)
        IN  /\ kept.done = pruned.done
            /\ kept.done =>
                  /\ kept.output = pruned.output
                  /\ kept.memory = pruned.memory
                  /\ kept.ptr = pruned.ptr

\* The indices of the tape: memory is [0u8; HEAP_SIZE].
TapeIndices == 0..(HEAP_SIZE - 1)

\* The indices last_op read or wrote in memory: memory[*ptr] for every token
\* but the two moves, and memory[dest] for a Multiply.
Accessed ==
    (IF last_op.t \in {"none", "Next", "Prev"} THEN {} ELSE {prev.ptr})
        \cup (IF last_op.t = "Multiply"
              THEN {MultiplyDest(prev.ptr, last_op.n)} ELSE {})

\* C21: in every state of interpret the pointer is an index of the tape, the
\* tape has cells at the indices 0..29999 only and each holds a byte, the
\* tape is all 0 and the pointer 0 when interpret starts, and every index a
\* token reads or writes, the destination of a Multiply with a positive or a
\* negative offset included, is in 0..29999.
C21_TapeAccessInBounds ==
    /\ ptr \in TapeIndices
    /\ DOMAIN memory \subseteq TapeIndices
    /\ \A i \in DOMAIN memory : memory[i] \in 1..255
    /\ (pc = "run" /\ last_op = NoTok) => (memory = ZeroMemory /\ ptr = 0)
    /\ Accessed \subseteq TapeIndices
    /\ (pc = "run" /\ frames # <<>> /\ Top.i <= Len(Top.block)
          /\ CurOp.t = "Multiply") =>
          MultiplyDest(ptr, CurOp.n) \in TapeIndices

\* C21, witness: a Multiply with a negative offset has run with the pointer
\* nearer to cell 0 than the offset is long, and its destination holds the
\* product.
C21_Witness ==
    /\ last_op.t = "Multiply"
    /\ last_op.n < 0
    /\ prev.ptr + last_op.n < 0
    /\ Cell(prev.memory, prev.ptr) # 0
    /\ Cell(memory, MultiplyDest(prev.ptr, last_op.n)) # 0
    /\ MultiplyDest(prev.ptr, last_op.n) # prev.ptr

\* C22: when the command-line interpreter of main.rs is at an input command
\* "," and standard input is exhausted, that is not an error: the current
\* cell is set to 0 and execution continues with the next command.
C22_CliEofIsZero ==
    [][(CliAt(TOKEN_INPUT) /\ inpos = Len(input)) =>
          /\ memory' = Store(memory, ptr, 0)
          /\ ptr' = ptr
          /\ cli' = CliNext
          /\ pc' = "cli"
          /\ result' = "none"]_vars

====
